---------------------------- MODULE Spec2Model ----------------------------
(***************************************************************************)
(* Model of the hybrid retrieval and result-fusion engine of BarbellGPT:   *)
(* core/retriever.py (HybridRetriever), core/vector_store.py               *)
(* (ChromaVectorStore), the ingestion and retrieval paths of                *)
(* agents/rag_agent.py and the encoder fallback of knowledge/vectorizer.py. *)
(*                                                                         *)
(* Numbers are fixed point.  Distances, vector_score, keyword_score and    *)
(* the weights are in tenths (1.0 is 10, 0.7 is 7); combined_score, a      *)
(* product of two of them, is in hundredths (0.86 is 86).                  *)
(***************************************************************************)
EXTENDS Integers, Sequences, FiniteSets, TLC

VARIABLES
    vector_store,      \* the object given to HybridRetriever.__init__
    collection,        \* the Chroma collection: stored entries, in insertion order
    bm25_retriever,    \* HybridRetriever.bm25_retriever: None or the index built last
    vector_weight,     \* HybridRetriever.vector_weight
    keyword_weight,    \* HybridRetriever.keyword_weight
    n_results,         \* the limit of the call in progress / last made
    vector_results,    \* the vector input of the fusion
    keyword_results,   \* the keyword input of the fusion
    result_map,        \* _merge_results' result_map, in insertion order, scored
    combined_results,  \* the list returned to the caller
    op,                \* the last call made: "none", "add_documents", "setup_bm25_retriever",
                       \* "search", "semantic_search", "keyword_search", "_retrieve_node"
    outcome,           \* how the last call ended: "none", "returned" or "raised"
    log,               \* what the last call logged at error or warning level
    events,            \* which collaborator calls raised during the last call
    context,           \* the context RAGAgent._retrieve_node built, as its parts
    answers,           \* the arguments of the last search and what its collaborators answered
    last_build,        \* how the last run of setup_bm25_retriever ended: "none", "built", "failed"
    pc,                \* "ready" / "merged" for the fusion on its own, "system" for the
                       \* retriever, "conversation" for ConversationManager, "ui" for
                       \* the Streamlit script
    max_history,            \* ConversationManager.max_history
    conversations,          \* ConversationManager.conversations: session id -> messages
    conversation_metadata,  \* ConversationManager.conversation_metadata: session id -> message_count
    added,                  \* per session, the messages added since it was started or last cleared
    returned,               \* what the last ConversationManager call returned
    session_state,          \* st.session_state, which outlives a run of the script
    chat_interface,         \* the ChatInterface of the current run: rag_agent, conversation_manager
    threads                 \* a rebuild and a search running at once: where each is, its locals

vars == << vector_store, collection, bm25_retriever, vector_weight, keyword_weight,
           n_results, vector_results, keyword_results, result_map,
           combined_results, op, outcome, log, events, context, answers,
           last_build, pc, max_history, conversations, conversation_metadata, added,
           returned, session_state, chat_interface, threads >>

\* the state outside the retriever and its collaborators
outsideRetriever ==
    << max_history, conversations, conversation_metadata, added, returned,
       session_state, chat_interface, threads >>

\* the state of the retriever, its collaborators and its last call
retrieverState ==
    << vector_store, collection, bm25_retriever, vector_weight, keyword_weight,
       n_results, vector_results, keyword_results, result_map, combined_results,
       log, events, context, answers, last_build >>

-----------------------------------------------------------------------------
(* Bounds of the model *)

MaxVec == 2
MaxKw == 2
MaxLimit == 2
MaxBatch == 1
MaxStore == 2

(* Python values *)

None == "None"

\* HybridRetriever.bm25_retriever before any successful build, and after one
NoRetriever == [built |-> FALSE, documents |-> << >>]
BM25Retriever(documents) == [built |-> TRUE, documents |-> documents]
NoKey == "<no key>"
NoDistance == -1

(* 1.0 in tenths *)
One == 10

\* the texts of the documents of the model
Texts == {"ta", "tb"}

\* no distance asked for
NoDist == [t \in Texts |-> 0]

\* np.zeros(dimension), and the embedding an encoder computes for a text
ZeroVector == "zeros"
QueryEmbedding == "embedding"

\* a search that has not been made: no argument, no answer
NoAnswers ==
    [embedding |-> None, store_n_results |-> 0, filter |-> None, dist |-> NoDist,
     query_fails |-> FALSE,
     keyword_fails |-> FALSE, keyword_docs |-> << >>]

\* no ConversationManager and no Streamlit script in the run
NoConversationManager ==
    /\ max_history = 0
    /\ conversations = << >>
    /\ conversation_metadata = << >>
    /\ added = << >>
    /\ returned = << >>

NoChatInterface ==
    /\ session_state = << >>
    /\ chat_interface = << >>
    /\ threads = << >>

Ids == {"", "d1", "d2"}
Dists == {2, 5, 12, NoDistance}
Weights == {5, 7}

\* vector_weight: float = 0.7, the weight of every retriever the program builds
DefaultVectorWeight == 7
Limits == -1 .. MaxLimit

\* a constructor that gives both sub-searches the same weight
KeywordWeightSame(vw) == vw

\* self.keyword_weight = 1.0 - vector_weight
KeywordWeight(vw) == One - vw

-----------------------------------------------------------------------------
(* Python helpers *)

\* x or 0, for the distance of a vector result (None and 0 both give 0)
Or0(d) == IF d = NoDistance THEN 0 ELSE d

\* seq[:n + 1]: a limit that is one too large
PySliceOffByOne(seq, n) ==
    SubSeq(seq, 1, IF n + 1 < Len(seq) THEN (IF n + 1 > 0 THEN n + 1 ELSE 0) ELSE Len(seq))

\* seq[:n], Python slice semantics (a negative n counts from the end)
PySlice(seq, n) ==
    IF n >= 0
    THEN SubSeq(seq, 1, IF n < Len(seq) THEN n ELSE Len(seq))
    ELSE SubSeq(seq, 1, IF Len(seq) + n > 0 THEN Len(seq) + n ELSE 0)

\* doc_id in result_map
InMap(map, id) == \E k \in 1 .. Len(map) : map[k].id = id

\* the position of id in the insertion-ordered mapping
KeyPos(map, id) == CHOOSE k \in 1 .. Len(map) : map[k].id = id

-----------------------------------------------------------------------------
(* HybridRetriever._merge_results *)

\* result.get('id', f'vec_{i}'), i counted from 0
VecDocId(result, i) ==
    IF result.id = NoKey THEN "vec_" \o ToString(i - 1) ELSE result.id

\* result.get('id', f'kw_{i}')
KwDocId(result, i) ==
    IF result.id = NoKey THEN "kw_" \o ToString(i - 1) ELSE result.id

VecCandidate(result, doc_id) ==
    [ text |-> result.text,
      metadata |-> result.metadata,
      id |-> doc_id,
      vector_score |-> One - Or0(result.distance),
      keyword_score |-> 0,
      combined_score |-> 0 ]

\* a keyword candidate that takes the keyword score as its vector score too
KwCandidateBothScores(result, doc_id) ==
    [ text |-> result.text,
      metadata |-> result.metadata,
      id |-> doc_id,
      vector_score |-> result.score,
      keyword_score |-> result.score,
      combined_score |-> 0 ]

KwCandidate(result, doc_id) ==
    [ text |-> result.text,
      metadata |-> result.metadata,
      id |-> doc_id,
      vector_score |-> 0,
      keyword_score |-> result.score,
      combined_score |-> 0 ]

\* the loop over vector_results: the first result of an id wins
RECURSIVE VectorLoop(_, _, _)
VectorLoop(vr, i, map) ==
    IF i > Len(vr) THEN map
    ELSE LET doc_id == VecDocId(vr[i], i)
         IN  VectorLoop(vr, i + 1,
                 IF InMap(map, doc_id) THEN map
                 ELSE Append(map, VecCandidate(vr[i], doc_id)))

\* a keyword step that drops the results the vector search did not return
KeywordStepNoInsert(map, result, doc_id) ==
    IF InMap(map, doc_id)
    THEN [map EXCEPT ![KeyPos(map, doc_id)].keyword_score = result.score]
    ELSE map

\* a keyword step that replaces the candidate of the vector search
KeywordStepOverwrite(map, result, doc_id) ==
    IF InMap(map, doc_id)
    THEN [map EXCEPT ![KeyPos(map, doc_id)] =
             [ text |-> result.text, metadata |-> result.metadata, id |-> doc_id,
               vector_score |-> 0, keyword_score |-> result.score,
               combined_score |-> 0 ]]
    ELSE Append(map, [ text |-> result.text, metadata |-> result.metadata, id |-> doc_id,
                       vector_score |-> 0, keyword_score |-> result.score,
                       combined_score |-> 0 ])

\* one step of the loop over keyword_results
KeywordStep(map, result, doc_id) ==
    IF InMap(map, doc_id)
    THEN [map EXCEPT ![KeyPos(map, doc_id)].keyword_score = result.score]
    ELSE Append(map, KwCandidate(result, doc_id))

RECURSIVE KeywordLoop(_, _, _)
KeywordLoop(kr, i, map) ==
    IF i > Len(kr) THEN map
    ELSE KeywordLoop(kr, i + 1, KeywordStep(map, kr[i], KwDocId(kr[i], i)))

\* the weights applied to the wrong scores
CombinedScoreSwapped(c, vw, kw) == kw * c.vector_score + vw * c.keyword_score

\* combined_score of one candidate
CombinedScore(c, vw, kw) == vw * c.vector_score + kw * c.keyword_score

ScoreAll(map, vw, kw) ==
    [k \in 1 .. Len(map) |->
        [map[k] EXCEPT !.combined_score = CombinedScore(map[k], vw, kw)]]

\* sorted(...) without reverse=True: ascending
RECURSIVE InsertAsc(_, _)
InsertAsc(sorted, c) ==
    IF sorted = << >> THEN << c >>
    ELSE IF Head(sorted).combined_score <= c.combined_score
         THEN << Head(sorted) >> \o InsertAsc(Tail(sorted), c)
         ELSE << c >> \o sorted

\* a descending sort that puts a candidate before those of equal score
RECURSIVE InsertDescUnstable(_, _)
InsertDescUnstable(sorted, c) ==
    IF sorted = << >> THEN << c >>
    ELSE IF Head(sorted).combined_score > c.combined_score
         THEN << Head(sorted) >> \o InsertDescUnstable(Tail(sorted), c)
         ELSE << c >> \o sorted

\* sorted(..., key=combined_score, reverse=True): stable, descending
RECURSIVE InsertDesc(_, _)
InsertDesc(sorted, c) ==
    IF sorted = << >> THEN << c >>
    ELSE IF Head(sorted).combined_score >= c.combined_score
         THEN << Head(sorted) >> \o InsertDesc(Tail(sorted), c)
         ELSE << c >> \o sorted

RECURSIVE SortedDesc(_, _, _)
SortedDesc(map, i, acc) ==
    IF i > Len(map) THEN acc
    ELSE SortedDesc(map, i + 1, InsertDesc(acc, map[i]))

\* result['text'] / result['metadata'] of an entry without the key: KeyError
MergeRaises(vr, kr) ==
    \/ \E i \in 1 .. Len(vr) :
          /\ vr[i].text = NoKey
          /\ \A j \in 1 .. i - 1 : VecDocId(vr[j], j) # VecDocId(vr[i], i)
    \/ \E i \in 1 .. Len(kr) :
          /\ kr[i].text = NoKey
          /\ \A j \in 1 .. Len(vr) : VecDocId(vr[j], j) # KwDocId(kr[i], i)
          /\ \A j \in 1 .. i - 1 : KwDocId(kr[j], j) # KwDocId(kr[i], i)

\* the scored mapping _merge_results builds
MergedMap(vr, kr, vw, kw) ==
    ScoreAll(KeywordLoop(kr, 1, VectorLoop(vr, 1, << >>)), vw, kw)

\* the list _merge_results returns
merge_results(vr, kr, n, vw, kw) ==
    PySlice(SortedDesc(MergedMap(vr, kr, vw, kw), 1, << >>), n)

-----------------------------------------------------------------------------
(* Inputs of the fusion taken on their own: any two lists of well-formed   *)
(* entries.  The text and metadata of an entry name the list and position  *)
(* it comes from, so that the origin of every field of a candidate shows.  *)

Meta(name) == [id |-> NoKey, file_name |-> name]

VecEntry(i, id, d) ==
    [ text |-> "vtext" \o ToString(i), metadata |-> Meta("vmeta" \o ToString(i)),
      id |-> id, distance |-> d ]

KwEntry(i, id) ==
    [ text |-> "ktext" \o ToString(i), metadata |-> Meta("kmeta" \o ToString(i)),
      id |-> id, score |-> One ]

VecInputs ==
    UNION { { [i \in 1 .. n |-> VecEntry(i, ids[i], ds[i])] :
                ids \in [1 .. n -> Ids], ds \in [1 .. n -> Dists] } :
            n \in 0 .. MaxVec }

KwInputs ==
    UNION { { [i \in 1 .. n |-> KwEntry(i, ids[i])] : ids \in [1 .. n -> Ids] } :
            n \in 0 .. MaxKw }

InitMerge ==
    /\ vector_store = "ChromaVectorStore"
    /\ collection = << >>
    /\ bm25_retriever = NoRetriever
    /\ vector_weight \in Weights
    /\ keyword_weight = KeywordWeight(vector_weight)
    /\ n_results \in Limits
    /\ vector_results \in VecInputs
    /\ keyword_results \in KwInputs
    /\ result_map = << >>
    /\ combined_results = << >>
    /\ op = "none"
    /\ outcome = "none"
    /\ log = {}
    /\ events = {}
    /\ context = << >>
    /\ answers = NoAnswers
    /\ last_build = "none"
    /\ pc = "ready"
    /\ NoConversationManager
    /\ NoChatInterface

MergeCall ==
    /\ pc = "ready"
    /\ pc' = "merged"
    /\ IF MergeRaises(vector_results, keyword_results)
       THEN /\ result_map' = << >>
            /\ combined_results' = << >>
            /\ outcome' = "raised"
       ELSE /\ result_map' = MergedMap(vector_results, keyword_results,
                                       vector_weight, keyword_weight)
            /\ combined_results' = merge_results(vector_results, keyword_results,
                                                 n_results, vector_weight, keyword_weight)
            /\ outcome' = "returned"
    /\ UNCHANGED << vector_store, collection, bm25_retriever, vector_weight,
                    keyword_weight, n_results, vector_results, keyword_results,
                    op, log, events, context, answers, last_build >>
    /\ UNCHANGED outsideRetriever

NextMerge == MergeCall

SpecMerge == InitMerge /\ [][NextMerge]_vars

(* The fusion given lists of which some entries lack 'id' or 'text' *)

MalformedIds == {NoKey, "d1", "d2"}

\* entry i of a list, without the key 'text' when has_text is FALSE
WithoutText(entry, has_text) == IF has_text THEN entry ELSE [entry EXCEPT !.text = NoKey]

MalformedVecInputs ==
    UNION { { [i \in 1 .. n |-> WithoutText(VecEntry(i, ids[i], 2), has_text[i])] :
                ids \in [1 .. n -> MalformedIds], has_text \in [1 .. n -> BOOLEAN] } :
            n \in 0 .. MaxVec }

MalformedKwInputs ==
    UNION { { [i \in 1 .. n |-> WithoutText(KwEntry(i, ids[i]), has_text[i])] :
                ids \in [1 .. n -> MalformedIds], has_text \in [1 .. n -> BOOLEAN] } :
            n \in 0 .. MaxKw }

InitMalformed ==
    /\ vector_store = "ChromaVectorStore"
    /\ collection = << >>
    /\ bm25_retriever = NoRetriever
    /\ vector_weight = DefaultVectorWeight
    /\ keyword_weight = KeywordWeight(vector_weight)
    /\ n_results = MaxVec + MaxKw
    /\ vector_results \in MalformedVecInputs
    /\ keyword_results \in MalformedKwInputs
    /\ result_map = << >>
    /\ combined_results = << >>
    /\ op = "none"
    /\ outcome = "none"
    /\ log = {}
    /\ events = {}
    /\ context = << >>
    /\ answers = NoAnswers
    /\ last_build = "none"
    /\ pc = "ready"
    /\ NoConversationManager
    /\ NoChatInterface

SpecMalformed == InitMalformed /\ [][NextMerge]_vars

-----------------------------------------------------------------------------
(* The retriever with its collaborators: documents, the Chroma collection,  *)
(* the BM25 index.                                                          *)

\* hash(text): some integer, distinct for the texts of the model
Hash(t) == IF t = "ta" THEN 11 ELSE 22

FileOf(t) == IF t = "ta" THEN "f1" ELSE "f2"

Document(t, m) == [page_content |-> t, metadata |-> [id |-> m, file_name |-> FileOf(t)]]

\* The documents of the model.  The repository's loader and processor put no
\* 'id' in the metadata (NoKey); a caller of RAGAgent.add_documents may put any
\* string there, also one that is the id the vector store gives the document
\* when it is the first of its batch.
MetaIdValues == {NoKey, "doc_0_22"}

Documents == { Document(t, m) : t \in Texts, m \in MetaIdValues }

Batches == UNION { [1 .. n -> Documents] : n \in 0 .. MaxBatch }

\* metadata filters of a search: None, or equality on file_name
Filters == {None, "f1"}

\* the distances the index may report for the texts, one assignment per query
QueryDists == {2, 12}

\* k of langchain's BM25Retriever
BM25TopK == 4

\* Vectorizer.encode_documents: one entry per document, metadata copied
encode_documents(documents) ==
    [i \in 1 .. Len(documents) |->
        [text |-> documents[i].page_content, metadata |-> documents[i].metadata]]

\* f"doc_{i}_{hash(doc_data['text'])}", i counted from 0
StoreDocId(i, text) == "doc_" \o ToString(i - 1) \o "_" \o ToString(Hash(text))

\* the ids, metadatas and texts ChromaVectorStore.add_documents hands to collection.add
StoreEntries(doc_data) ==
    [i \in 1 .. Len(doc_data) |->
        [id |-> StoreDocId(i, doc_data[i].text),
         text |-> doc_data[i].text,
         metadata |-> doc_data[i].metadata]]

CollectionIds(coll) == { coll[k].id : k \in 1 .. Len(coll) }

\* collection.add where some ids exist already: the installed Chroma either
\* raises or leaves the existing entries and adds the others
AddSkippingExisting(coll, entries) ==
    coll \o SelectSeq(entries, LAMBDA e : e.id \notin CollectionIds(coll))

\* where=filter_metadata
Matches(metadata, filter) == filter = None \/ metadata.file_name = filter

\* nearest first; entries at the same distance stay in insertion order
RECURSIVE InsertNear(_, _, _)
InsertNear(sorted, e, dist) ==
    IF sorted = << >> THEN << e >>
    ELSE IF dist[Head(sorted).text] <= dist[e.text]
         THEN << Head(sorted) >> \o InsertNear(Tail(sorted), e, dist)
         ELSE << e >> \o sorted

RECURSIVE Nearest(_, _, _, _)
Nearest(coll, i, dist, acc) ==
    IF i > Len(coll) THEN acc
    ELSE Nearest(coll, i + 1, dist, InsertNear(acc, coll[i], dist))

\* collection.query(...) formatted by ChromaVectorStore.search
FormattedResults(coll, dist, n, filter) ==
    LET pool == SelectSeq(coll, LAMBDA e : Matches(e.metadata, filter))
        near == Nearest(pool, 1, dist, << >>)
        top == SubSeq(near, 1, IF n < Len(near) THEN n ELSE Len(near))
    IN  [i \in 1 .. Len(top) |->
            [text |-> top[i].text, metadata |-> top[i].metadata,
             id |-> top[i].id, distance |-> dist[top[i].text]]]

\* ChromaVectorStore.search: the query raises when the index is unreachable
\* (query_fails) or refuses the request (n_results < 1); the exception is
\* logged and an empty list is returned
ChromaSearch(coll, dist, n, filter, query_fails) ==
    IF query_fails \/ n < 1
    THEN [raised |-> FALSE, results |-> << >>,
          log |-> {"vector_store.error"}, events |-> {"collection.query raised"}]
    ELSE [raised |-> FALSE, results |-> FormattedResults(coll, dist, n, filter),
          log |-> {}, events |-> {}]

\* self.vector_store.search(...): ChromaVectorStore's, or the search of another
\* object given to HybridRetriever.__init__, which raises
VectorStoreSearch(store, coll, dist, n, filter, query_fails) ==
    IF store = "ChromaVectorStore"
    THEN ChromaSearch(coll, dist, n, filter, query_fails)
    ELSE [raised |-> TRUE, results |-> << >>, log |-> {},
          events |-> {"vector_store.search raised"}]

\* the rankings BM25 may give the indexed documents: any order, at most k of them
Rankings(docs) ==
    { [i \in 1 .. (IF Len(docs) < BM25TopK THEN Len(docs) ELSE BM25TopK) |-> docs[p[i]]] :
        p \in { q \in [1 .. Len(docs) -> 1 .. Len(docs)] :
                    \A a, b \in 1 .. Len(docs) : q[a] = q[b] => a = b } }

\* a lookup that leaves the id out when the metadata has none
MetadataIdAbsent(metadata) == metadata.id

\* doc.metadata.get('id', '')
MetadataId(metadata) == IF metadata.id = NoKey THEN "" ELSE metadata.id

\* the keyword_results list built in HybridRetriever.search
KeywordResults(keyword_docs, n) ==
    LET top == PySlice(keyword_docs, n)
    IN  [i \in 1 .. Len(top) |->
            [text |-> top[i].page_content, metadata |-> top[i].metadata,
             id |-> MetadataId(top[i].metadata), score |-> One]]

\* a search that asks the index without looking whether there is one: the
\* lookup on None raises and is logged as a warning
KeywordRaisedNoGuard(keyword_fails) == ~bm25_retriever.built \/ keyword_fails

\* if self.bm25_retriever: try ... except: the lookup is made only when there
\* is an index, and then it may raise
KeywordRaised(keyword_fails) == bm25_retriever.built /\ keyword_fails

\* a search that answers from the documents of the index, unranked, when the
\* lookup raises
KeywordContributionFallback(keyword_docs, keyword_fails, n) ==
    IF bm25_retriever.built
    THEN KeywordResults(IF keyword_fails THEN bm25_retriever.documents ELSE keyword_docs,
                        n * 2)
    ELSE << >>

\* keyword_results at the fusion: empty without an index and when the lookup
\* raised, else the list built from the first n_results * 2 documents
KeywordContribution(keyword_docs, keyword_fails, n) ==
    IF bm25_retriever.built /\ ~keyword_fails
    THEN KeywordResults(keyword_docs, n * 2)
    ELSE << >>

\* what HybridRetriever.search does once the vector search has answered
SearchAfterVector(vr, keyword_docs, keyword_fails, n, vlog, vevents) ==
    LET kr == KeywordContribution(keyword_docs, keyword_fails, n)
        kw_raised == KeywordRaised(keyword_fails)
    IN  IF MergeRaises(vr, kr)
        THEN /\ vector_results' = vr
             /\ keyword_results' = kr
             /\ result_map' = << >>
             /\ combined_results' = << >>
             /\ log' = vlog \cup {"retriever.error"}
                            \cup (IF kw_raised THEN {"retriever.warning"} ELSE {})
             /\ events' = vevents \cup {"_merge_results raised"}
                            \cup (IF kw_raised THEN {"bm25 raised"} ELSE {})
        ELSE /\ vector_results' = vr
             /\ keyword_results' = kr
             /\ result_map' = MergedMap(vr, kr, vector_weight, keyword_weight)
             /\ combined_results' =
                    merge_results(vr, kr, n, vector_weight, keyword_weight)
             /\ log' = vlog \cup (IF kw_raised THEN {"retriever.warning"} ELSE {})
             /\ events' = vevents \cup (IF kw_raised THEN {"bm25 raised"} ELSE {})

\* a search without the outer except: the exception reaches the caller
SearchVectorRaisedPropagates(vevents) ==
    /\ vector_results' = << >>
    /\ keyword_results' = << >>
    /\ result_map' = << >>
    /\ combined_results' = << >>
    /\ log' = {}
    /\ events' = vevents
    /\ outcome' = "raised"

\* what HybridRetriever.search does when the vector search raised: the outer
\* except logs the error and returns []
SearchVectorRaised(vevents) ==
    /\ vector_results' = << >>
    /\ keyword_results' = << >>
    /\ result_map' = << >>
    /\ combined_results' = << >>
    /\ log' = {"retriever.error"}
    /\ events' = vevents
    /\ outcome' = "returned"

\* HybridRetriever.search(query, query_embedding, n_results, filter_metadata).
\* The query and its embedding show in what the collaborators answer: dist (the
\* distance of each text), query_fails (the index cannot answer), keyword_docs
\* (BM25's ranking) and keyword_fails (the BM25 lookup raises).
HybridSearch(n, embedding, filter, dist, query_fails, keyword_fails, keyword_docs) ==
    LET v == VectorStoreSearch(vector_store, collection, dist, n * 2, filter, query_fails)
    IN  /\ n_results' = n
        /\ answers' = [embedding |-> embedding, store_n_results |-> n * 2,
                       filter |-> filter, dist |-> dist,
                       query_fails |-> query_fails, keyword_fails |-> keyword_fails,
                       keyword_docs |-> keyword_docs]
        /\ IF v.raised
           THEN SearchVectorRaised(v.events)
           ELSE /\ SearchAfterVector(v.results, keyword_docs, keyword_fails, n,
                                     v.log, v.events)
                /\ outcome' = "returned"

\* what the BM25 lookup of one search may do: nothing (no index), raise, or rank
KeywordAnswers ==
    IF bm25_retriever.built
    THEN { << TRUE, << >> >> } \cup
         { << FALSE, r >> : r \in Rankings(bm25_retriever.documents) }
    ELSE { << FALSE, << >> >> }

Search ==
    /\ pc = "system"
    /\ op = "none"
    /\ \E n \in 0 .. MaxLimit, k \in KeywordAnswers :
          \/ HybridSearch(n, QueryEmbedding, None, NoDist, TRUE, k[1], k[2])
          \/ /\ vector_store = "ChromaVectorStore"
             /\ \E filter \in Filters, dist \in [Texts -> QueryDists] :
                   HybridSearch(n, QueryEmbedding, filter, dist, FALSE, k[1], k[2])
    /\ op' = "search"
    /\ context' = << >>
    /\ UNCHANGED << vector_store, collection, bm25_retriever, vector_weight,
                    keyword_weight, last_build, pc >>
    /\ UNCHANGED outsideRetriever

\* a retriever that keeps the lists of its last search
ResultsKept ==
    /\ n_results' = 0
    /\ UNCHANGED << vector_results, keyword_results, result_map, combined_results >>
    /\ context' = << >>
    /\ answers' = NoAnswers

\* The lists of a search live for that call only: a call that is not a search
\* has none.
NoSearchResults ==
    /\ n_results' = 0
    /\ vector_results' = << >>
    /\ keyword_results' = << >>
    /\ result_map' = << >>
    /\ combined_results' = << >>
    /\ context' = << >>
    /\ answers' = NoAnswers

\* HybridRetriever.setup_bm25_retriever: the index is replaced by one over the
\* documents given; a failed build (no documents, dependency missing) is logged
\* and leaves the attribute as it was
SetupBm25(documents, build_fails) ==
    IF build_fails \/ documents = << >>
    THEN /\ bm25_retriever' = bm25_retriever
         /\ last_build' = "failed"
         /\ log' = {"retriever.error"}
         /\ events' = {"BM25Retriever.from_documents raised"}
    ELSE /\ bm25_retriever' = BM25Retriever(documents)
         /\ last_build' = "built"
         /\ log' = {}
         /\ events' = {}

setup_bm25_retriever ==
    /\ pc = "system"
    /\ op = "none"
    /\ \E documents \in Batches, build_fails \in BOOLEAN :
          SetupBm25(documents, build_fails)
    /\ op' = "setup_bm25_retriever"
    /\ outcome' = "returned"
    /\ NoSearchResults
    /\ UNCHANGED << vector_store, collection, vector_weight, keyword_weight, pc >>
    /\ UNCHANGED outsideRetriever

\* RAGAgent.add_documents: encode, add to the vector store, and on success
\* rebuild the keyword index from the documents of this call
AddDocuments(documents, add_fails, skip_existing, build_fails) ==
    LET entries == StoreEntries(encode_documents(documents))
        clash == \E i \in 1 .. Len(entries) : entries[i].id \in CollectionIds(collection)
        raised == entries # << >> /\ (add_fails \/ (clash /\ ~skip_existing))
    IN  IF raised
        THEN /\ log' = {"vector_store.error"}
             /\ events' = {"collection.add raised"}
             /\ UNCHANGED << collection, bm25_retriever, last_build >>
        ELSE /\ collection' = AddSkippingExisting(collection, entries)
             /\ SetupBm25(documents, build_fails)

add_documents ==
    /\ pc = "system"
    /\ op = "none"
    /\ vector_store = "ChromaVectorStore"
    /\ \E documents \in Batches :
          /\ Len(collection) + Len(documents) <= MaxStore
          /\ \/ AddDocuments(documents, TRUE, TRUE, FALSE)
             \/ AddDocuments(documents, FALSE, TRUE, FALSE)
             \/ AddDocuments(documents, FALSE, FALSE, FALSE)
             \/ AddDocuments(documents, FALSE, TRUE, TRUE)
    /\ op' = "add_documents"
    /\ outcome' = "returned"
    /\ NoSearchResults
    /\ UNCHANGED << vector_store, vector_weight, keyword_weight, pc >>
    /\ UNCHANGED outsideRetriever

\* HybridRetriever.semantic_search: the answer of self.vector_store.search, as
\* it is; an exception of the store reaches the caller
SemanticSearch(n, filter, dist, query_fails) ==
    VectorStoreSearch(vector_store, collection, dist, n, filter, query_fails)

SemanticSearchCall(n, filter, dist, query_fails) ==
    LET v == SemanticSearch(n, filter, dist, query_fails)
    IN  /\ n_results' = n
        /\ answers' = [embedding |-> QueryEmbedding, store_n_results |-> n,
                       filter |-> filter, dist |-> dist,
                       query_fails |-> query_fails, keyword_fails |-> FALSE,
                       keyword_docs |-> << >>]
        /\ vector_results' = << >>
        /\ keyword_results' = << >>
        /\ result_map' = << >>
        /\ combined_results' = v.results
        /\ log' = v.log
        /\ events' = v.events
        /\ outcome' = IF v.raised THEN "raised" ELSE "returned"

semantic_search ==
    /\ pc = "system"
    /\ op = "none"
    /\ \E n \in 0 .. MaxLimit :
          \/ SemanticSearchCall(n, None, NoDist, TRUE)
          \/ /\ vector_store = "ChromaVectorStore"
             /\ \E filter \in Filters, dist \in [Texts -> QueryDists] :
                   SemanticSearchCall(n, filter, dist, FALSE)
    /\ op' = "semantic_search"
    /\ context' = << >>
    /\ UNCHANGED << vector_store, collection, bm25_retriever, vector_weight,
                    keyword_weight, last_build, pc >>
    /\ UNCHANGED outsideRetriever

\* a keyword_search that forgets its limit: the whole ranking is returned
KeywordSearchWholeRanking(keyword_docs, keyword_fails, n) ==
    IF ~bm25_retriever.built
    THEN [results |-> << >>, log |-> {"retriever.warning"}, events |-> {}]
    ELSE IF keyword_fails
         THEN [results |-> << >>, log |-> {"retriever.error"}, events |-> {"bm25 raised"}]
         ELSE [results |-> [i \in 1 .. Len(keyword_docs) |->
                               [text |-> keyword_docs[i].page_content,
                                metadata |-> keyword_docs[i].metadata,
                                id |-> MetadataId(keyword_docs[i].metadata),
                                score |-> One]],
               log |-> {}, events |-> {}]

\* HybridRetriever.keyword_search: nothing without an index, nothing when the
\* lookup raises, else the first n_results of BM25's ranking
KeywordSearch(keyword_docs, keyword_fails, n) ==
    IF ~bm25_retriever.built
    THEN [results |-> << >>, log |-> {"retriever.warning"}, events |-> {}]
    ELSE IF keyword_fails
         THEN [results |-> << >>, log |-> {"retriever.error"}, events |-> {"bm25 raised"}]
         ELSE LET docs == PySlice(keyword_docs, n)
              IN  [results |-> [i \in 1 .. Len(docs) |->
                                   [text |-> docs[i].page_content,
                                    metadata |-> docs[i].metadata,
                                    id |-> MetadataId(docs[i].metadata),
                                    score |-> One]],
                   log |-> {}, events |-> {}]

keyword_search ==
    /\ pc = "system"
    /\ op = "none"
    /\ \E n \in 0 .. MaxLimit, k \in KeywordAnswers :
          LET r == KeywordSearch(k[2], k[1], n)
          IN  /\ n_results' = n
              /\ answers' = [NoAnswers EXCEPT !.keyword_fails = k[1],
                                               !.keyword_docs = k[2]]
              /\ combined_results' = r.results
              /\ log' = r.log
              /\ events' = r.events
    /\ vector_results' = << >>
    /\ keyword_results' = << >>
    /\ result_map' = << >>
    /\ op' = "keyword_search"
    /\ outcome' = "returned"
    /\ context' = << >>
    /\ UNCHANGED << vector_store, collection, bm25_retriever, vector_weight,
                    keyword_weight, last_build, pc >>
    /\ UNCHANGED outsideRetriever

\* the messages a caller hands to RAGAgent._retrieve_node: none, or a question
UserMessages == {"", "q"}

\* Vectorizer.encode_text: zeros for an empty text, a failed API call or an
\* exception of the encoder
encode_text(text, encode_fails) ==
    IF text = "" \/ encode_fails THEN ZeroVector ELSE QueryEmbedding

\* n_results=3 in RAGAgent._retrieve_node
RetrieveLimit == 3

NoInformationContext == << "no knowledge-base information found" >>
RetrievalFailedContext == << "retrieval failed, no information available" >>

\* RAGAgent._build_context
build_context(search_results) ==
    IF search_results = << >>
    THEN NoInformationContext
    ELSE << "answer from the following knowledge-base information" >> \o
         [i \in 1 .. Len(search_results) |->
             "source " \o search_results[i].metadata.file_name \o ": " \o
             search_results[i].text]

\* RAGAgent._retrieve_node: encode the user's message, search with limit 3 and
\* no filter, build the context from what the search returned.  The agent's
\* store is a ChromaVectorStore.
retrieve_node ==
    /\ pc = "system"
    /\ op = "none"
    /\ vector_store = "ChromaVectorStore"
    /\ \E user_message \in UserMessages, encode_fails \in BOOLEAN, k \in KeywordAnswers :
          LET query_embedding == encode_text(user_message, encode_fails)
          IN  \/ HybridSearch(RetrieveLimit, query_embedding, None, NoDist, TRUE,
                              k[1], k[2])
              \/ \E dist \in [Texts -> QueryDists] :
                    HybridSearch(RetrieveLimit, query_embedding, None, dist, FALSE,
                                 k[1], k[2])
    /\ context' = IF outcome' = "raised"
                  THEN RetrievalFailedContext
                  ELSE build_context(combined_results')
    /\ op' = "_retrieve_node"
    /\ UNCHANGED << vector_store, collection, bm25_retriever, vector_weight,
                    keyword_weight, last_build, pc >>
    /\ UNCHANGED outsideRetriever

\* The caller has taken what the call returned (RAGAgent._retrieve_node builds
\* the context from the list and drops it): nothing of the call is kept.
ResultConsumed ==
    /\ pc = "system"
    /\ op # "none"
    /\ op' = "none"
    /\ outcome' = "none"
    /\ log' = {}
    /\ events' = {}
    /\ NoSearchResults
    /\ UNCHANGED << vector_store, collection, bm25_retriever, vector_weight,
                    keyword_weight, last_build, pc >>
    /\ UNCHANGED outsideRetriever

Init ==
    /\ vector_store \in {"ChromaVectorStore", "RaisingStore"}
    /\ collection = << >>
    /\ bm25_retriever = NoRetriever
    /\ vector_weight \in Weights
    /\ keyword_weight = KeywordWeight(vector_weight)
    /\ n_results = 0
    /\ vector_results = << >>
    /\ keyword_results = << >>
    /\ result_map = << >>
    /\ combined_results = << >>
    /\ op = "none"
    /\ outcome = "none"
    /\ log = {}
    /\ events = {}
    /\ context = << >>
    /\ answers = NoAnswers
    /\ last_build = "none"
    /\ pc = "system"
    /\ NoConversationManager
    /\ NoChatInterface

Next ==
    \/ add_documents
    \/ setup_bm25_retriever
    \/ Search
    \/ semantic_search
    \/ keyword_search
    \/ retrieve_node
    \/ ResultConsumed

Spec == Init /\ [][Next]_vars

(* Searches with limits up to OverfetchLimit over a keyword index of up to  *)
(* MaxIndex documents.                                                      *)

MaxIndex == 5
OverfetchLimit == 3

\* k documents: the first two as the repository's loader makes them (no 'id'
\* in the metadata), the others with an 'id' of their own
Corpus(k) ==
    [i \in 1 .. k |->
        Document(IF i % 2 = 1 THEN "ta" ELSE "tb",
                 IF i <= 2 THEN NoKey ELSE "c" \o ToString(i))]

\* HybridRetriever.setup_bm25_retriever(Corpus(k))
setup_corpus ==
    /\ pc = "system"
    /\ op = "none"
    /\ \E k \in 0 .. MaxIndex : SetupBm25(Corpus(k), FALSE)
    /\ op' = "setup_bm25_retriever"
    /\ outcome' = "returned"
    /\ NoSearchResults
    /\ UNCHANGED << vector_store, collection, vector_weight, keyword_weight, pc >>
    /\ UNCHANGED outsideRetriever

\* HybridRetriever.search with a limit up to OverfetchLimit, the index answering
search_corpus ==
    /\ pc = "system"
    /\ op = "none"
    /\ \E n \in 0 .. OverfetchLimit, k \in KeywordAnswers :
          HybridSearch(n, QueryEmbedding, None, NoDist, FALSE, k[1], k[2])
    /\ op' = "search"
    /\ context' = << >>
    /\ UNCHANGED << vector_store, collection, bm25_retriever, vector_weight,
                    keyword_weight, last_build, pc >>
    /\ UNCHANGED outsideRetriever

NextOverfetch ==
    \/ setup_corpus
    \/ search_corpus
    \/ ResultConsumed

SpecOverfetch == Init /\ [][NextOverfetch]_vars

-----------------------------------------------------------------------------
(* Properties of the fusion as a function of its inputs (SpecMerge) *)

VecIds == { vector_results[i].id : i \in 1 .. Len(vector_results) }
KwIds == { keyword_results[i].id : i \in 1 .. Len(keyword_results) }
MapIds == { result_map[k].id : k \in 1 .. Len(result_map) }

\* the first vector result / the last keyword result that carries an id
FirstVec(id) ==
    vector_results[CHOOSE i \in 1 .. Len(vector_results) :
        /\ vector_results[i].id = id
        /\ \A j \in 1 .. i - 1 : vector_results[j].id # id]
LastKw(id) ==
    keyword_results[CHOOSE i \in 1 .. Len(keyword_results) :
        /\ keyword_results[i].id = id
        /\ \A j \in i + 1 .. Len(keyword_results) : keyword_results[j].id # id]

\* C1: the keys of the merged mapping are exactly the ids of the vector results
\* and of the keyword results together, and no key occurs twice.
C1_UnionCompleteness ==
    pc = "merged" =>
        /\ MapIds = VecIds \cup KwIds
        /\ \A j, k \in 1 .. Len(result_map) :
               result_map[j].id = result_map[k].id => j = k

\* C1 witness: a merge of overlapping inputs, where one id came from both lists,
\* one from the vector list alone and one from the keyword list alone.
C1_Witness ==
    /\ pc = "merged"
    /\ VecIds \cap KwIds # {}
    /\ VecIds \ KwIds # {}
    /\ KwIds \ VecIds # {}
    /\ Len(result_map) = 3

\* C2: an id returned by both searches has one candidate; its keyword_score is
\* the keyword result's score, and its vector_score, text and metadata are the
\* vector result's.  The spec's scenario (d1 at distance 0.2, keyword score 1.0,
\* vector_weight 0.7) gives vector_score 0.8, keyword_score 1.0, combined 0.86.
C2_SharedIdFused ==
    pc = "merged" =>
        /\ \A id \in VecIds \cap KwIds :
               /\ Cardinality({k \in 1 .. Len(result_map) : result_map[k].id = id}) = 1
               /\ LET c == result_map[KeyPos(result_map, id)]
                  IN  /\ c.keyword_score = LastKw(id).score
                      /\ c.vector_score = One - Or0(FirstVec(id).distance)
                      /\ c.text = FirstVec(id).text
                      /\ c.metadata = FirstVec(id).metadata
        /\ ( /\ vector_results = << VecEntry(1, "d1", 2) >>
             /\ keyword_results = << KwEntry(1, "d1") >>
             /\ vector_weight = 7 )
           => /\ Len(result_map) = 1
              /\ result_map[1].id = "d1"
              /\ result_map[1].vector_score = 8
              /\ result_map[1].keyword_score = 10
              /\ result_map[1].combined_score = 86

\* C2 witness: the spec's scenario has been merged.
C2_Witness ==
    /\ pc = "merged"
    /\ vector_results = << VecEntry(1, "d1", 2) >>
    /\ keyword_results = << KwEntry(1, "d1") >>
    /\ vector_weight = 7
    /\ n_results = 1
    /\ Len(combined_results) = 1
    /\ combined_results[1].combined_score = 86

\* C4: every returned candidate has combined_score = vector_weight * vector_score
\* + keyword_weight * keyword_score; for a candidate of one search alone the other
\* term is 0.
C4_CombinedScoreFormula ==
    pc = "merged" =>
        \A k \in 1 .. Len(combined_results) :
            LET c == combined_results[k]
            IN  /\ c.combined_score =
                       vector_weight * c.vector_score + keyword_weight * c.keyword_score
                /\ c.id \notin KwIds =>
                       c.combined_score = vector_weight * (One - Or0(FirstVec(c.id).distance))
                /\ c.id \notin VecIds =>
                       c.combined_score = keyword_weight * LastKw(c.id).score

\* C4 witness: a returned list with a candidate of both searches, one of the vector
\* search alone and one of the keyword search alone, all with a non-zero score.
C4_Witness ==
    /\ pc = "merged"
    /\ \E k \in 1 .. Len(combined_results) :
           /\ combined_results[k].id \in VecIds \ KwIds
           /\ combined_results[k].combined_score # 0
    /\ \E k \in 1 .. Len(combined_results) :
           /\ combined_results[k].id \in KwIds \ VecIds
           /\ combined_results[k].combined_score = keyword_weight * One

\* C5: a candidate of the vector search alone has keyword_score 0, one of the
\* keyword search alone has vector_score 0.  The spec's scenario (d1 at distance
\* 0.5 from the vector search, d2 from the keyword search, vector_weight 0.7)
\* gives [d1, d2] with combined scores 0.35 and 0.30.
C5_SingleSourceScoring ==
    pc = "merged" =>
        /\ \A k \in 1 .. Len(result_map) :
               /\ result_map[k].id \notin KwIds => result_map[k].keyword_score = 0
               /\ result_map[k].id \notin VecIds => result_map[k].vector_score = 0
        /\ \A k \in 1 .. Len(combined_results) :
               /\ combined_results[k].id \notin KwIds =>
                      combined_results[k].keyword_score = 0
               /\ combined_results[k].id \notin VecIds =>
                      combined_results[k].vector_score = 0
        /\ ( /\ vector_results = << VecEntry(1, "d1", 5) >>
             /\ keyword_results = << KwEntry(1, "d2") >>
             /\ vector_weight = 7
             /\ n_results = 2 )
           => /\ Len(combined_results) = 2
              /\ combined_results[1].id = "d1"
              /\ combined_results[1].combined_score = 35
              /\ combined_results[2].id = "d2"
              /\ combined_results[2].combined_score = 30

\* C5 witness: the spec's scenario has been merged.
C5_Witness ==
    /\ pc = "merged"
    /\ vector_results = << VecEntry(1, "d1", 5) >>
    /\ keyword_results = << KwEntry(1, "d2") >>
    /\ vector_weight = 7
    /\ n_results = 2
    /\ Len(combined_results) = 2

\* C6: in the returned list an earlier candidate never has a smaller
\* combined_score than a later one.
C6_RankingMonotonic ==
    pc = "merged" =>
        \A i, j \in 1 .. Len(combined_results) :
            i < j => combined_results[i].combined_score
                         >= combined_results[j].combined_score

\* C6 witness: the sort moved a later-inserted candidate ahead of an earlier one.
C6_Witness ==
    /\ pc = "merged"
    /\ Len(combined_results) = 2
    /\ Len(result_map) >= 2
    /\ result_map[1].combined_score < result_map[2].combined_score
    /\ combined_results[1].combined_score > combined_results[2].combined_score

\* C7: with a limit k >= 0 the returned list has at most k entries, none for k = 0.
C7_Truncation ==
    (pc = "merged" /\ n_results >= 0) =>
        /\ Len(combined_results) <= n_results
        /\ n_results = 0 => combined_results = << >>

\* C7 witness: the limit cut candidates off the merged mapping.
C7_Witness ==
    /\ pc = "merged"
    /\ n_results = 1
    /\ Len(result_map) = 3
    /\ Len(combined_results) = 1

-----------------------------------------------------------------------------
(* Properties of HybridRetriever.search with its collaborators (Spec) *)

\* the candidates of the merged mapping that carry a given chunk
CandidatesOf(text, metadata) ==
    { k \in 1 .. Len(result_map) :
        result_map[k].text = text /\ result_map[k].metadata = metadata }

\* C3: a chunk returned by the vector search and by the keyword search of one
\* search call is one candidate of the fusion, with its vector_score and its
\* keyword_score, and not two candidates.
C3_MergedByIdentity ==
    op = "search" =>
        \A i \in 1 .. Len(vector_results), j \in 1 .. Len(keyword_results) :
            ( /\ vector_results[i].text = keyword_results[j].text
              /\ vector_results[i].metadata = keyword_results[j].metadata )
            => /\ Cardinality(CandidatesOf(vector_results[i].text,
                                           vector_results[i].metadata)) = 1
               /\ \A k \in CandidatesOf(vector_results[i].text,
                                        vector_results[i].metadata) :
                      /\ result_map[k].vector_score = One - Or0(vector_results[i].distance)
                      /\ result_map[k].keyword_score = keyword_results[j].score

\* C9: when the vector store's search raises, search returns the empty list,
\* logs the error and lets no exception out; nothing is ranked.
C9_VectorRaiseGivesEmpty ==
    (op = "search" /\ "vector_store.search raised" \in events) =>
        /\ outcome = "returned"
        /\ combined_results = << >>
        /\ result_map = << >>
        /\ "retriever.error" \in log

\* C9 witness: a search with a positive limit whose vector search raised while
\* a keyword index was built.
C9_Witness ==
    /\ op = "search"
    /\ "vector_store.search raised" \in events
    /\ bm25_retriever.built
    /\ n_results > 0
    /\ outcome = "returned"

\* C10: when the query of the vector index fails while a keyword index is
\* built, the search returns the empty list, never a ranking of keyword
\* candidates alone.
C10_VectorFailureIsFatal ==
    (op = "search" /\ "collection.query raised" \in events /\ bm25_retriever.built) =>
        combined_results = << >>

-----------------------------------------------------------------------------
(* Failures and degraded modes, seen from the callers (Spec) *)

\* the vector search of the last call failed: the store's query raised and was
\* logged, or the store's search raised into HybridRetriever.search
RetrievalFailed == "vector_store.error" \in log \/ "retriever.error" \in log

\* C11: what search hands back after a retrieval failure differs from what it
\* hands back after a successful search that found nothing, so that the context
\* _retrieve_node builds after a failure is not the one it builds for "no
\* relevant document found".
C11_FailureDistinguishable ==
    (op = "_retrieve_node" /\ RetrievalFailed) => context # NoInformationContext

\* C12: with no keyword index ever built, search skips the keyword lookup
\* without error and returns the vector candidates alone, cut to the limit:
\* each returned candidate is one vector result with keyword_score 0 and
\* combined_score vector_weight * vector_score, best first, and a vector result
\* left out scores no better than any returned one.
C12_NoIndexPureVector ==
    (op \in {"search", "_retrieve_node"} /\ ~bm25_retriever.built) =>
        /\ outcome = "returned"
        /\ keyword_results = << >>
        /\ "retriever.warning" \notin log
        /\ "bm25 raised" \notin events
        /\ Len(combined_results) =
               (IF n_results < Len(vector_results) THEN n_results ELSE Len(vector_results))
        /\ \A k \in 1 .. Len(combined_results) :
              /\ \E i \in 1 .. Len(vector_results) :
                    /\ combined_results[k].id = vector_results[i].id
                    /\ combined_results[k].text = vector_results[i].text
                    /\ combined_results[k].metadata = vector_results[i].metadata
                    /\ combined_results[k].vector_score = One - vector_results[i].distance
                    /\ combined_results[k].combined_score =
                           vector_weight * (One - vector_results[i].distance)
              /\ combined_results[k].keyword_score = 0
              /\ \A j \in 1 .. Len(combined_results) :
                    /\ j # k => combined_results[j].id # combined_results[k].id
                    /\ j < k => combined_results[j].combined_score
                                    >= combined_results[k].combined_score
        /\ \A i \in 1 .. Len(vector_results) :
              (\A k \in 1 .. Len(combined_results) :
                    combined_results[k].id # vector_results[i].id)
              => \A k \in 1 .. Len(combined_results) :
                    combined_results[k].combined_score
                        >= vector_weight * (One - vector_results[i].distance)

C12_Witness ==
    /\ op = "search"
    /\ ~bm25_retriever.built
    /\ last_build = "failed"
    /\ log = {}
    /\ n_results = 1
    /\ Len(vector_results) = 2
    /\ vector_results[1].distance < vector_results[2].distance
    /\ Len(combined_results) = 1

-----------------------------------------------------------------------------
(* The keyword index against the vector store (Spec) *)

\* the chunks (text and metadata) a list of entries or documents holds
StoredChunks == { << collection[k].text, collection[k].metadata >> :
                      k \in 1 .. Len(collection) }
IndexedChunks ==
    { << bm25_retriever.documents[k].page_content, bm25_retriever.documents[k].metadata >> :
          k \in 1 .. Len(bm25_retriever.documents) }

\* C13: after a RAGAgent.add_documents call that stored its documents and
\* built the index, whatever add_documents calls came before, the chunks
\* searchable through the keyword index are exactly the chunks stored in the
\* vector index.
C13_KeywordIndexCoversStore ==
    (op = "add_documents" /\ events = {}) => IndexedChunks = StoredChunks

\* C14: a failed build of the keyword index does not raise to its caller, and
\* a keyword search made after a failed build and before the next successful
\* one returns an empty list, whatever builds came before the failed one.
C14_FailedBuildEmptiesKeywordSearch ==
    /\ op = "setup_bm25_retriever" => outcome = "returned"
    /\ (op = "keyword_search" /\ last_build = "failed") =>
           (outcome = "returned" /\ combined_results = << >>)

-----------------------------------------------------------------------------
(* The weights (Spec) *)

\* C15: after construction and any sequence of setup_bm25_retriever, search,
\* semantic_search and keyword_search calls, the weights sum to 1 and
\* vector_weight is the value given at construction: no call changes it.
C15_WeightsFixed ==
    /\ [](vector_weight + keyword_weight = One)
    /\ [][vector_weight' = vector_weight /\ keyword_weight' = keyword_weight]_vars

C15_Witness ==
    /\ op = "keyword_search"
    /\ last_build = "built"
    /\ combined_results # << >>
    /\ vector_weight = 5
    /\ keyword_weight = 5

-----------------------------------------------------------------------------
(* Malformed entries and missing distances in the fusion *)

\* an entry that carries both required fields
WellFormed(entry) == entry.id # NoKey /\ entry.text # NoKey

\* C16: an entry of a sub-search that lacks 'text' or 'id' is dropped: the
\* fusion returns the ranking of the well-formed entries, and the malformed
\* entry gives no candidate.
C16_MalformedDropped ==
    pc = "merged" =>
        /\ outcome = "returned"
        /\ combined_results =
               merge_results(SelectSeq(vector_results, WellFormed),
                             SelectSeq(keyword_results, WellFormed),
                             n_results, vector_weight, keyword_weight)

\* C17: the candidate made for a vector result has vector_score = 1 - distance
\* when the sub-search reported a distance, and vector_score = 0 when it
\* reported none.
C17_VectorScoreFromDistance ==
    pc = "merged" =>
        \A id \in VecIds :
            result_map[KeyPos(result_map, id)].vector_score =
                (IF FirstVec(id).distance = NoDistance
                 THEN 0
                 ELSE One - FirstVec(id).distance)

-----------------------------------------------------------------------------
(* What a search asks of its sub-searches (SpecOverfetch, Spec) *)

\* C18: a search with limit n asks the vector sub-search for 2 * n candidates
\* and the keyword sub-search for 2 * n candidates: when both answer, the
\* vector store was called with n_results = 2 * n and the keyword list holds
\* the 2 * n best documents of the index (all of them when it has fewer).
C18_OverfetchBothSides ==
    (op = "search" /\ events = {} /\ bm25_retriever.built) =>
        /\ answers.store_n_results = 2 * n_results
        /\ Len(keyword_results) =
               (IF 2 * n_results < Len(bm25_retriever.documents)
                THEN 2 * n_results
                ELSE Len(bm25_retriever.documents))

\* C19: in the state of a search, semantic_search with the same embedding and
\* filter and n_results = 2 * limit returns the very list the fusion took as
\* its vector input, and keyword_search with the same query and n_results =
\* 2 * limit returns the very list the fusion took as its keyword input (ids,
\* texts, metadata, order, each scored 1.0).
C19_AccessorsMatchFusionInputs ==
    (op \in {"search", "_retrieve_node"} /\ vector_store = "ChromaVectorStore") =>
        /\ vector_results =
               SemanticSearch(2 * n_results, answers.filter, answers.dist,
                              answers.query_fails).results
        /\ keyword_results =
               KeywordSearch(answers.keyword_docs, answers.keyword_fails,
                             2 * n_results).results

C19_Witness ==
    /\ op = "search"
    /\ n_results = 1
    /\ answers.filter = "f1"
    /\ Len(collection) = 2
    /\ Len(vector_results) = 1
    /\ Len(keyword_results) = 1
    /\ keyword_results[1].id # ""
    /\ keyword_results[1].score = One

\* C20: when the encoder fell back to the zero vector (empty message or
\* failed provider), _retrieve_node does not search with it: it reports a
\* retrieval failure, and no result of a query with the zero vector reaches
\* the fusion.
C20_ZeroVectorNotQueried ==
    (op = "_retrieve_node" /\ answers.embedding = ZeroVector) =>
        /\ context = RetrievalFailedContext
        /\ answers.store_n_results = 0
        /\ vector_results = << >>

-----------------------------------------------------------------------------
(* ConversationManager (agents/conversation_manager.py).  The timestamps of *)
(* the metadata (start_time, last_activity) are left out: of the metadata   *)
(* only message_count is kept.                                              *)

MaxHistory == 1
ExtraAdded == 1

SessionIds == {"s1", "s2"}
Contents == {"a", "b"}

\* HumanMessage(content=message) / AIMessage(content=message)
HumanMessage(content) == [type |-> "human", content |-> content]
AIMessage(content) == [type |-> "ai", content |-> content]

\* a Python dict: key in d, d[key] = value, del d[key]
EmptyDict == [k \in {} |-> << >>]
HasKey(d, key) == key \in DOMAIN d
SetItem(d, key, value) == [k \in DOMAIN d \cup {key} |-> IF k = key THEN value ELSE d[k]]
DelItem(d, key) == [k \in DOMAIN d \ {key} |-> d[k]]

\* seq[-n:] for n > 0 (the last n), and for n = 0 (seq[-0:] is the whole list)
LastOf(seq, n) ==
    IF n = 0 \/ n >= Len(seq) THEN seq ELSE SubSeq(seq, Len(seq) - n + 1, Len(seq))

\* a truncation at max_history messages instead of max_history * 2
Truncated_AtMaxHistory(history, mh) ==
    IF Len(history) > mh THEN LastOf(history, mh) ELSE history

\* a truncation that keeps the first max_history * 2 messages
Truncated_KeepOldest(history, mh) ==
    IF Len(history) > mh * 2 THEN SubSeq(history, 1, mh * 2) ELSE history

\* if len(history) > self.max_history * 2: history = history[-self.max_history * 2:]
Truncated(history, mh) ==
    IF Len(history) > mh * 2 THEN LastOf(history, mh * 2) ELSE history

\* the messages added to all sessions since each was started or last cleared
RECURSIVE TotalAdded(_, _)
TotalAdded(d, keys) ==
    IF keys = {} THEN 0
    ELSE LET k == CHOOSE x \in keys : TRUE
         IN  Len(d[k]) + TotalAdded(d, keys \ {k})

\* the frame of a ConversationManager call
ConversationCall(name) ==
    /\ pc = "conversation"
    /\ op = "none"
    /\ op' = name
    /\ outcome' = "returned"
    /\ UNCHANGED << retrieverState, pc, max_history, session_state, chat_interface,
                    threads >>

\* ConversationManager.start_conversation
StartConversation(session_id) ==
    IF ~HasKey(conversations, session_id)
    THEN /\ conversations' = SetItem(conversations, session_id, << >>)
         /\ conversation_metadata' = SetItem(conversation_metadata, session_id, 0)
         /\ added' = SetItem(added, session_id, << >>)
         /\ returned' = [session_id |-> session_id, value |-> TRUE]
    ELSE /\ returned' = [session_id |-> session_id, value |-> FALSE]
         /\ UNCHANGED << conversations, conversation_metadata, added >>

start_conversation ==
    /\ ConversationCall("start_conversation")
    /\ \E session_id \in SessionIds : StartConversation(session_id)

\* ConversationManager.add_message: the session is started when it is not
\* there, the message appended, the count raised, the history cut
AddMessage(session_id, message, is_user) ==
    LET known == HasKey(conversations, session_id)
        history == IF known THEN conversations[session_id] ELSE << >>
        count == IF known THEN conversation_metadata[session_id] ELSE 0
        sofar == IF known THEN added[session_id] ELSE << >>
        msg == IF is_user THEN HumanMessage(message) ELSE AIMessage(message)
    IN  /\ conversations' =
               SetItem(conversations, session_id,
                       Truncated(Append(history, msg), max_history))
        /\ conversation_metadata' = SetItem(conversation_metadata, session_id, count + 1)
        /\ added' = SetItem(added, session_id, Append(sofar, msg))
        /\ returned' = [session_id |-> session_id, value |-> TRUE]

add_message ==
    /\ ConversationCall("add_message")
    /\ TotalAdded(added, DOMAIN added) < 2 * MaxHistory + ExtraAdded
    /\ \E session_id \in SessionIds, message \in Contents, is_user \in BOOLEAN :
          AddMessage(session_id, message, is_user)

\* the limits a caller of get_conversation_history gives: None (NoLimit), or a number
NoLimit == -1
HistoryLimits == {NoLimit, 0, 1, 2 * MaxHistory}

\* ConversationManager.get_conversation_history
GetConversationHistory(session_id, limit) ==
    IF ~HasKey(conversations, session_id)
    THEN << >>
    ELSE IF limit = NoLimit \/ limit = 0
         THEN conversations[session_id]
         ELSE LastOf(conversations[session_id], limit)

get_conversation_history ==
    /\ ConversationCall("get_conversation_history")
    /\ \E session_id \in SessionIds, limit \in HistoryLimits :
          returned' = [session_id |-> session_id, limit |-> limit,
                       value |-> GetConversationHistory(session_id, limit)]
    /\ UNCHANGED << conversations, conversation_metadata, added >>

\* the number of messages of one class in a history
CountType(history, type) == Len(SelectSeq(history, LAMBDA m : m.type = type))

\* no summary: the empty dict get_conversation_summary returns for a session it
\* does not know
NoSummary == [known |-> FALSE, total_messages |-> 0, user_messages |-> 0, ai_messages |-> 0]

\* ConversationManager.get_conversation_summary
GetConversationSummary(session_id) ==
    IF ~HasKey(conversations, session_id)
    THEN NoSummary
    ELSE [known |-> TRUE,
          total_messages |-> conversation_metadata[session_id],
          user_messages |-> CountType(conversations[session_id], "human"),
          ai_messages |-> CountType(conversations[session_id], "ai")]

get_conversation_summary ==
    /\ ConversationCall("get_conversation_summary")
    /\ \E session_id \in SessionIds :
          returned' = [session_id |-> session_id,
                       value |-> GetConversationSummary(session_id)]
    /\ UNCHANGED << conversations, conversation_metadata, added >>

ClearConversationKeepsCount(session_id) ==
    IF HasKey(conversations, session_id)
    THEN /\ conversations' = SetItem(conversations, session_id, << >>)
         /\ added' = SetItem(added, session_id, << >>)
         /\ returned' = [session_id |-> session_id, value |-> TRUE]
         /\ UNCHANGED conversation_metadata
    ELSE /\ returned' = [session_id |-> session_id, value |-> FALSE]
         /\ UNCHANGED << conversations, conversation_metadata, added >>

\* ConversationManager.clear_conversation
ClearConversation(session_id) ==
    IF HasKey(conversations, session_id)
    THEN /\ conversations' = SetItem(conversations, session_id, << >>)
         /\ conversation_metadata' = SetItem(conversation_metadata, session_id, 0)
         /\ added' = SetItem(added, session_id, << >>)
         /\ returned' = [session_id |-> session_id, value |-> TRUE]
    ELSE /\ returned' = [session_id |-> session_id, value |-> FALSE]
         /\ UNCHANGED << conversations, conversation_metadata, added >>

clear_conversation ==
    /\ ConversationCall("clear_conversation")
    /\ \E session_id \in SessionIds : ClearConversation(session_id)

\* ConversationManager.delete_conversation
DeleteConversation(session_id) ==
    IF HasKey(conversations, session_id)
    THEN /\ conversations' = DelItem(conversations, session_id)
         /\ conversation_metadata' = DelItem(conversation_metadata, session_id)
         /\ added' = DelItem(added, session_id)
         /\ returned' = [session_id |-> session_id, value |-> TRUE]
    ELSE /\ returned' = [session_id |-> session_id, value |-> FALSE]
         /\ UNCHANGED << conversations, conversation_metadata, added >>

delete_conversation ==
    /\ ConversationCall("delete_conversation")
    /\ \E session_id \in SessionIds : DeleteConversation(session_id)

\* the caller has taken what the call returned
ConversationResultTaken ==
    /\ pc = "conversation"
    /\ op # "none"
    /\ op' = "none"
    /\ outcome' = "none"
    /\ returned' = << >>
    /\ UNCHANGED << retrieverState, pc, max_history, conversations,
                    conversation_metadata, added, session_state, chat_interface,
                    threads >>

\* ConversationManager(max_history)
InitConversation ==
    /\ vector_store = "ChromaVectorStore"
    /\ collection = << >>
    /\ bm25_retriever = NoRetriever
    /\ vector_weight = DefaultVectorWeight
    /\ keyword_weight = KeywordWeight(vector_weight)
    /\ n_results = 0
    /\ vector_results = << >>
    /\ keyword_results = << >>
    /\ result_map = << >>
    /\ combined_results = << >>
    /\ op = "none"
    /\ outcome = "none"
    /\ log = {}
    /\ events = {}
    /\ context = << >>
    /\ answers = NoAnswers
    /\ last_build = "none"
    /\ pc = "conversation"
    /\ max_history \in 1 .. MaxHistory
    /\ conversations = EmptyDict
    /\ conversation_metadata = EmptyDict
    /\ added = EmptyDict
    /\ returned = << >>
    /\ NoChatInterface

NextConversation ==
    \/ start_conversation
    \/ add_message
    \/ get_conversation_history
    \/ get_conversation_summary
    \/ clear_conversation
    \/ delete_conversation
    \/ ConversationResultTaken

SpecConversation == InitConversation /\ [][NextConversation]_vars

-----------------------------------------------------------------------------
(* Properties of ConversationManager (SpecConversation) *)

\* the session the last call was about is known to the manager
ReturnedKnown == HasKey(conversations, returned.session_id)

\* C21: while no more than 2 * max_history messages were added to a session
\* since it was started, get_conversation_history (no limit) returns exactly
\* those messages, in the order they were added and with the class (human or
\* AI) each was added with, and get_conversation_summary reports their number
\* as total_messages.
C21_HistoryIsWhatWasAdded ==
    /\ ( /\ op = "get_conversation_history"
         /\ returned.limit = NoLimit
         /\ ReturnedKnown
         /\ Len(added[returned.session_id]) <= 2 * max_history )
       => returned.value = added[returned.session_id]
    /\ ( /\ op = "get_conversation_summary"
         /\ ReturnedKnown
         /\ Len(added[returned.session_id]) <= 2 * max_history )
       => returned.value.total_messages = Len(added[returned.session_id])

C21_Witness ==
    /\ op = "get_conversation_history"
    /\ returned.limit = NoLimit
    /\ ReturnedKnown
    /\ Len(added[returned.session_id]) = 2 * max_history
    /\ Len(returned.value) = 2
    /\ returned.value[1] = HumanMessage("a")
    /\ returned.value[2] = AIMessage("b")

-----------------------------------------------------------------------------
(* Keyword hits without an identifier (SpecOverfetch) *)

\* the keyword results whose document metadata has no 'id', by position
Unidentified == { j \in 1 .. Len(keyword_results) : keyword_results[j].metadata.id = NoKey }

\* the candidates of the merged mapping / of the returned list with the id ''
EmptyIdCandidates == { k \in 1 .. Len(result_map) : result_map[k].id = "" }
EmptyIdReturned == { k \in 1 .. Len(combined_results) : combined_results[k].id = "" }

\* C22: every keyword hit whose metadata has no identifier gets the id '', and
\* however many there are, one candidate stands for all of them in the fusion:
\* it carries the text and metadata of the first of them in keyword order, and
\* the returned list holds at most one candidate with the id ''.
C22_UnidentifiedHitsShareOneCandidate ==
    (op = "search" /\ Unidentified # {}) =>
        /\ \A j \in Unidentified : keyword_results[j].id = ""
        /\ Cardinality(EmptyIdCandidates) = 1
        /\ Cardinality(EmptyIdReturned) <= 1
        /\ \A k \in EmptyIdCandidates :
              LET first == CHOOSE j \in Unidentified : \A i \in Unidentified : j <= i
              IN  /\ result_map[k].text = keyword_results[first].text
                  /\ result_map[k].metadata = keyword_results[first].metadata

C22_Witness ==
    /\ op = "search"
    /\ Cardinality(Unidentified) = 2
    /\ Len(keyword_results) = 4
    /\ keyword_results[2].text = "tb"
    /\ keyword_results[2].metadata.id = NoKey
    /\ keyword_results[4].text = "ta"
    /\ keyword_results[4].metadata.id = NoKey
    /\ Len(result_map) = 3
    /\ \E k \in EmptyIdCandidates : result_map[k].text = "tb"

-----------------------------------------------------------------------------
(* A keyword lookup that raises (Spec) *)

\* the returned list is the vector results alone: one candidate per vector
\* result, in the order of the vector search cut to the limit, scored by the
\* vector side only
ReturnedIsVectorOnly ==
    /\ Len(combined_results) =
           (IF n_results < Len(vector_results) THEN n_results ELSE Len(vector_results))
    /\ \A k \in 1 .. Len(combined_results) :
          /\ combined_results[k].keyword_score = 0
          /\ combined_results[k].combined_score =
                 vector_weight * combined_results[k].vector_score
          /\ k > 1 => combined_results[k - 1].combined_score
                          >= combined_results[k].combined_score
          /\ \E i \in 1 .. Len(vector_results) :
                /\ combined_results[k].id = vector_results[i].id
                /\ combined_results[k].text = vector_results[i].text
                /\ combined_results[k].metadata = vector_results[i].metadata
                /\ combined_results[k].vector_score = One - vector_results[i].distance
          /\ \A j \in 1 .. Len(combined_results) :
                j # k => combined_results[j].id # combined_results[k].id
    /\ \A i \in 1 .. Len(vector_results), k \in 1 .. Len(combined_results) :
          (\A j \in 1 .. Len(combined_results) :
                combined_results[j].id # vector_results[i].id)
          => combined_results[k].combined_score
                 >= vector_weight * (One - vector_results[i].distance)

\* C23: when the index is built and the keyword lookup of a search raises, the
\* keyword side contributes nothing: the search returns, and its list is the
\* vector candidates ranked by vector_weight * vector_score with keyword_score
\* 0, as it would be had the index never been built.
C23_KeywordRaiseGivesVectorOnly ==
    ( /\ op \in {"search", "_retrieve_node"}
      /\ bm25_retriever.built
      /\ answers.keyword_fails ) =>
        /\ outcome = "returned"
        /\ keyword_results = << >>
        /\ ReturnedIsVectorOnly

C23_Witness ==
    /\ op = "search"
    /\ bm25_retriever.built
    /\ answers.keyword_fails
    /\ "bm25 raised" \in events
    /\ n_results = 2
    /\ Len(vector_results) = 2
    /\ Len(combined_results) = 2
    /\ combined_results[1].combined_score > combined_results[2].combined_score

-----------------------------------------------------------------------------
(* What the calls of the retriever leave alone (Spec) *)

\* the calls that only read
ReadingCalls == {"search", "semantic_search", "keyword_search", "_retrieve_node"}

\* C24: search, semantic_search and keyword_search change neither the keyword
\* index, nor the weights, nor the contents of the vector store; the index
\* changes only in setup_bm25_retriever (called directly or by
\* RAGAgent.add_documents); and once a call has returned, none of the lists of
\* scored candidates it made is left.
C24_SearchesChangeNothing ==
    /\ [](op = "none" =>
            /\ result_map = << >>
            /\ combined_results = << >>
            /\ vector_results = << >>
            /\ keyword_results = << >>)
    /\ [][ /\ op' \in ReadingCalls =>
                /\ bm25_retriever' = bm25_retriever
                /\ vector_weight' = vector_weight
                /\ keyword_weight' = keyword_weight
                /\ collection' = collection
                /\ vector_store' = vector_store
           /\ bm25_retriever' # bm25_retriever =>
                op' \in {"setup_bm25_retriever", "add_documents"} ]_vars

C24_Witness ==
    /\ op = "semantic_search"
    /\ Len(combined_results) = 2
    /\ Len(collection) = 2
    /\ bm25_retriever.built
    /\ Len(bm25_retriever.documents) = 1

-----------------------------------------------------------------------------
(* A rebuild of the keyword index and a search in two threads.  Each step   *)
(* is one read or one write of self.bm25_retriever, or work on locals.      *)

\* the document lists the rebuilds are given
BuildTargets ==
    { << Document("ta", "n1"), Document("tb", "n2") >>,
      << Document("tb", "n3"), Document("ta", "n4") >> }

IdleThreads ==
    [builder_pc |-> "idle", target |-> << >>, partial |-> << >>, builder_log |-> {},
     searcher_pc |-> "idle", guard |-> FALSE, at_start |-> NoRetriever,
     used |-> NoRetriever, assigned |-> {}]

\* an index that is filled in place: the attribute shows what is built so far
AttributeInPlace(current, partial) == BM25Retriever(partial)

\* self.bm25_retriever while BM25Retriever.from_documents runs: the object
\* under construction is not yet assigned, the attribute is what it was
AttributeWhileBuilding(current, partial) == current

\* the state a step of the rebuild leaves alone: the search's call data
BuilderFrame ==
    UNCHANGED << vector_store, collection, vector_weight, keyword_weight, n_results,
                 vector_results, keyword_results, result_map, combined_results,
                 op, outcome, log, events, context, answers, pc, max_history,
                 conversations, conversation_metadata, added, returned,
                 session_state, chat_interface >>

\* setup_bm25_retriever is entered
BuildStart ==
    /\ pc = "concurrent"
    /\ threads.builder_pc = "idle"
    /\ \E documents \in BuildTargets :
          threads' = [threads EXCEPT !.builder_pc = "building", !.target = documents,
                                     !.partial = << >>, !.builder_log = {}]
    /\ UNCHANGED << bm25_retriever, last_build >>
    /\ BuilderFrame

\* BM25Retriever.from_documents takes in one more document
BuildStep ==
    /\ pc = "concurrent"
    /\ threads.builder_pc = "building"
    /\ Len(threads.partial) < Len(threads.target)
    /\ LET partial == SubSeq(threads.target, 1, Len(threads.partial) + 1)
       IN  /\ threads' = [threads EXCEPT !.partial = partial]
           /\ bm25_retriever' = AttributeWhileBuilding(bm25_retriever, partial)
    /\ UNCHANGED last_build
    /\ BuilderFrame

\* from_documents has returned: self.bm25_retriever = <the new index>
BuildAssign ==
    /\ pc = "concurrent"
    /\ threads.builder_pc = "building"
    /\ threads.partial = threads.target
    /\ bm25_retriever' = BM25Retriever(threads.target)
    /\ last_build' = "built"
    /\ threads' = [threads EXCEPT
                      !.builder_pc = "idle", !.target = << >>, !.partial = << >>,
                      !.assigned = IF threads.searcher_pc = "idle" THEN {}
                                   ELSE @ \cup {BM25Retriever(threads.target)}]
    /\ BuilderFrame

\* from_documents raised: the error is logged, the attribute is not assigned
BuildRaise ==
    /\ pc = "concurrent"
    /\ threads.builder_pc = "building"
    /\ last_build' = "failed"
    /\ threads' = [threads EXCEPT !.builder_pc = "idle", !.target = << >>,
                                  !.partial = << >>, !.builder_log = {"retriever.error"}]
    /\ UNCHANGED bm25_retriever
    /\ BuilderFrame

\* the state a step of the search leaves alone
SearcherFrame ==
    UNCHANGED << vector_store, collection, bm25_retriever, vector_weight,
                 keyword_weight, last_build, pc, max_history, conversations,
                 conversation_metadata, added, returned, session_state,
                 chat_interface >>

\* search is entered: the vector search is made and `if self.bm25_retriever:`
\* is evaluated (first read of the attribute)
SearchGuard ==
    /\ pc = "concurrent"
    /\ threads.searcher_pc = "idle"
    /\ op = "none"
    /\ threads' = [threads EXCEPT !.searcher_pc = "guarded",
                                  !.guard = bm25_retriever.built,
                                  !.at_start = bm25_retriever,
                                  !.used = NoRetriever, !.assigned = {}]
    /\ UNCHANGED << n_results, vector_results, keyword_results, result_map,
                    combined_results, op, outcome, log, events, context, answers >>
    /\ SearcherFrame

\* self.bm25_retriever.get_relevant_documents(query) (second read of the
\* attribute), then the fusion and the return
SearchLookup ==
    /\ pc = "concurrent"
    /\ threads.searcher_pc = "guarded"
    /\ \E n \in 1 .. MaxLimit, k \in KeywordAnswers :
          LET v == VectorStoreSearch(vector_store, collection, NoDist, n * 2, None, FALSE)
              keyword_docs == IF threads.guard THEN k[2] ELSE << >>
              keyword_fails == threads.guard /\ k[1]
          IN  /\ n_results' = n
              /\ answers' = [embedding |-> QueryEmbedding, store_n_results |-> n * 2,
                             filter |-> None, dist |-> NoDist, query_fails |-> FALSE,
                             keyword_fails |-> keyword_fails,
                             keyword_docs |-> keyword_docs]
              /\ SearchAfterVector(v.results, keyword_docs, keyword_fails, n,
                                   v.log, v.events)
    /\ threads' = [threads EXCEPT
                      !.searcher_pc = "returned",
                      !.used = IF threads.guard THEN bm25_retriever ELSE NoRetriever]
    /\ op' = "search"
    /\ outcome' = "returned"
    /\ context' = << >>
    /\ SearcherFrame

\* the caller has taken the list
SearchReturn ==
    /\ pc = "concurrent"
    /\ threads.searcher_pc = "returned"
    /\ threads' = [threads EXCEPT !.searcher_pc = "idle", !.guard = FALSE,
                                  !.at_start = NoRetriever, !.used = NoRetriever,
                                  !.assigned = {}]
    /\ op' = "none"
    /\ outcome' = "none"
    /\ log' = {}
    /\ events' = {}
    /\ NoSearchResults
    /\ SearcherFrame

InitConcurrent ==
    /\ vector_store = "ChromaVectorStore"
    /\ collection = << >>
    /\ bm25_retriever = NoRetriever
    /\ vector_weight = DefaultVectorWeight
    /\ keyword_weight = KeywordWeight(vector_weight)
    /\ n_results = 0
    /\ vector_results = << >>
    /\ keyword_results = << >>
    /\ result_map = << >>
    /\ combined_results = << >>
    /\ op = "none"
    /\ outcome = "none"
    /\ log = {}
    /\ events = {}
    /\ context = << >>
    /\ answers = NoAnswers
    /\ last_build = "none"
    /\ pc = "concurrent"
    /\ NoConversationManager
    /\ session_state = << >>
    /\ chat_interface = << >>
    /\ threads = IdleThreads

NextConcurrent ==
    \/ BuildStart
    \/ BuildStep
    \/ BuildAssign
    \/ BuildRaise
    \/ SearchGuard
    \/ SearchLookup
    \/ SearchReturn

SpecConcurrent == InitConcurrent /\ [][NextConcurrent]_vars

\* C25: a search that began when an index was in place and runs while the
\* index is rebuilt makes its keyword lookup on a complete index: the one in
\* place when the search began or one assigned by a rebuild that completed
\* during the search, never on an empty or half-built one.
C25_LookupOnCompleteIndex ==
    (threads.searcher_pc = "returned" /\ threads.at_start.built) =>
        /\ threads.guard
        /\ threads.used.built
        /\ threads.used.documents \in BuildTargets
        /\ threads.used \in {threads.at_start} \cup threads.assigned
        /\ \A j \in 1 .. Len(keyword_results) :
              \E i \in 1 .. Len(threads.used.documents) :
                  /\ keyword_results[j].text = threads.used.documents[i].page_content
                  /\ keyword_results[j].metadata = threads.used.documents[i].metadata

C25_Witness ==
    /\ threads.searcher_pc = "returned"
    /\ threads.at_start.built
    /\ threads.used # threads.at_start
    /\ threads.used \in threads.assigned
    /\ threads.builder_pc = "building"
    /\ Len(threads.partial) = 1
    /\ Len(keyword_results) = 2

-----------------------------------------------------------------------------
(* Ties in the ranking (SpecMerge) *)

\* the first position at which a list carries an id (0 when it does not)
FirstIn(results, id) ==
    IF \E i \in 1 .. Len(results) : results[i].id = id
    THEN CHOOSE i \in 1 .. Len(results) :
            /\ results[i].id = id
            /\ \A j \in 1 .. i - 1 : results[j].id # id
    ELSE 0

\* candidate a was inserted before candidate b: vector results in the order
\* of the vector search, then keyword-only results in keyword order
InsertedBefore(a, b) ==
    LET va == FirstIn(vector_results, a)
        vb == FirstIn(vector_results, b)
    IN  IF va > 0 /\ vb > 0 THEN va < vb
        ELSE IF va > 0 THEN TRUE
        ELSE IF vb > 0 THEN FALSE
        ELSE FirstIn(keyword_results, a) < FirstIn(keyword_results, b)

ReturnedIds == { combined_results[k].id : k \in 1 .. Len(combined_results) }

\* C26: candidates of equal combined_score keep their insertion order: two
\* returned candidates of equal score stand in the order vector results
\* first (as the vector search gave them), then keyword-only results (in
\* keyword order), and a candidate cut off by the limit that ties with a
\* returned one was inserted after it.
C26_TiesKeepInsertionOrder ==
    pc = "merged" =>
        /\ \A a, b \in 1 .. Len(combined_results) :
              ( /\ a < b
                /\ combined_results[a].combined_score = combined_results[b].combined_score )
              => InsertedBefore(combined_results[a].id, combined_results[b].id)
        /\ \A k \in 1 .. Len(result_map), b \in 1 .. Len(combined_results) :
              ( /\ result_map[k].id \notin ReturnedIds
                /\ result_map[k].combined_score = combined_results[b].combined_score )
              => InsertedBefore(combined_results[b].id, result_map[k].id)

C26_Witness ==
    /\ pc = "merged"
    /\ vector_weight = 5
    /\ n_results = 2
    /\ Len(vector_results) = 2
    /\ Len(keyword_results) = 2
    /\ Len(result_map) = 3
    /\ Len(combined_results) = 2
    /\ combined_results[1].combined_score = combined_results[2].combined_score
    /\ combined_results[1].keyword_score = 0
    /\ combined_results[2].vector_score = 0
    /\ result_map[3].combined_score = combined_results[2].combined_score
    /\ result_map[3].id \notin ReturnedIds

-----------------------------------------------------------------------------
(* The metadata filter (Spec) *)

\* C27: every candidate a search with a metadata filter returns has metadata
\* that satisfies the filter, whichever sub-search it came from.
C27_FilterHoldsForAllCandidates ==
    (op = "search" /\ answers.filter # None) =>
        \A k \in 1 .. Len(combined_results) :
            Matches(combined_results[k].metadata, answers.filter)

-----------------------------------------------------------------------------
(* The bound of the stored history (SpecConversation) *)

-----------------------------------------------------------------------------
(* The summary's counts (SpecConversation) *)

-----------------------------------------------------------------------------
(* The Streamlit page (ui/chat_interface.py, main.run_streamlit_app).  Every *)
(* widget event runs the script again from the top: run_streamlit_app builds *)
(* a new ChatInterface and calls run(), while st.session_state is kept.  A   *)
(* step of the model is one run of the script.  What the page shows is kept  *)
(* as chat_interface.shown; the ConversationManager the run's ChatInterface  *)
(* holds is kept in max_history, conversations, conversation_metadata, added.*)

MaxMessages == 2
MaxSessions == 2

\* ConversationManager.__init__: max_history: int = 10
DefaultMaxHistory == 10

\* what RAGAgent.chat returns: the answer, or its own apology (it raises nothing)
Responses == {"answer", "sorry"}

\* st.session_state before the first run of the script: no key is set
NoSessionState ==
    [keys |-> {}, session_id |-> 0, messages |-> << >>, agent_initialized |-> FALSE]

\* ChatInterface.initialize_session_state: each key is set only when absent;
\* uuid4 is a session id not given before (ids are given in increasing order)
InitializeSessionState(ss) ==
    [keys |-> ss.keys \cup {"session_id", "messages", "agent_initialized"},
     session_id |-> IF "session_id" \in ss.keys THEN ss.session_id ELSE 1,
     messages |-> IF "messages" \in ss.keys THEN ss.messages ELSE << >>,
     agent_initialized |-> IF "agent_initialized" \in ss.keys
                           THEN ss.agent_initialized ELSE FALSE]

\* ChatInterface.__init__: self.rag_agent = None, self.conversation_manager = None
NewChatInterface ==
    [rag_agent |-> None, conversation_manager |-> None, shown |-> "none"]

\* ChatInterface.initialize_agent on the instance: RAGAgent() and
\* ConversationManager() are assigned, or RAGAgent() raises and the error is shown
InitializeAgent(ci, init_ok) ==
    IF init_ok
    THEN [ci EXCEPT !.rag_agent = "RAGAgent", !.conversation_manager = "ConversationManager"]
    ELSE [ci EXCEPT !.shown = "init_error"]

\* run(): a new ChatInterface, then "if not st.session_state.agent_initialized:
\* self.initialize_agent()"
InterfaceAfterInit(init_ok) ==
    LET ss0 == InitializeSessionState(session_state)
    IN  IF ~ss0.agent_initialized THEN InitializeAgent(NewChatInterface, init_ok)
        ELSE NewChatInterface

SessionAfterInit(init_ok) ==
    LET ss0 == InitializeSessionState(session_state)
    IN  IF ~ss0.agent_initialized /\ init_ok
        THEN [ss0 EXCEPT !.agent_initialized = TRUE]
        ELSE ss0

\* the ConversationManager of the run's ChatInterface: a new one when
\* initialize_agent made it, holding the given history for one session, or none
ManagerOf(ci, session_id, history) ==
    IF ci.conversation_manager = None
    THEN /\ max_history' = 0
         /\ conversations' = EmptyDict
         /\ conversation_metadata' = EmptyDict
         /\ added' = EmptyDict
    ELSE /\ max_history' = DefaultMaxHistory
         /\ conversations' =
                IF history = << >> THEN EmptyDict
                ELSE SetItem(EmptyDict, session_id, Truncated(history, DefaultMaxHistory))
         /\ conversation_metadata' =
                IF history = << >> THEN EmptyDict
                ELSE SetItem(EmptyDict, session_id, Len(history))
         /\ added' =
                IF history = << >> THEN EmptyDict
                ELSE SetItem(EmptyDict, session_id, history)

\* what a run leaves alone
UIFrame == UNCHANGED << retrieverState, pc, returned, threads >>

\* the page is open and no st.rerun() is pending: the user can act on a widget
PageIdle ==
    /\ pc = "ui"
    /\ session_state.keys # {}
    /\ outcome # "rerun"

\* a run of the script that no widget caused: it renders the page
RenderOnly(init_ok, name) ==
    LET ci == InterfaceAfterInit(init_ok)
        ss == SessionAfterInit(init_ok)
    IN  /\ chat_interface' = ci
        /\ session_state' = ss
        /\ ManagerOf(ci, ss.session_id, << >>)
        /\ op' = name
        /\ outcome' = "rendered"
        /\ UIFrame

\* the first run of the script in a browser session
script_load ==
    /\ pc = "ui"
    /\ session_state.keys = {}
    /\ \E init_ok \in BOOLEAN : RenderOnly(init_ok, "load")

\* the run st.rerun() starts
script_rerun ==
    /\ pc = "ui"
    /\ outcome = "rerun"
    /\ \E init_ok \in BOOLEAN : RenderOnly(init_ok, "rerun")

\* render_header, the button "重新初始化": agent_initialized = False, st.rerun()
click_reinitialize ==
    /\ PageIdle
    /\ \E init_ok \in BOOLEAN :
          LET ci == InterfaceAfterInit(init_ok)
              ss == SessionAfterInit(init_ok)
          IN  /\ chat_interface' = ci
              /\ session_state' = [ss EXCEPT !.agent_initialized = FALSE]
              /\ ManagerOf(ci, ss.session_id, << >>)
    /\ op' = "reinitialize"
    /\ outcome' = "rerun"
    /\ UIFrame

\* ChatInterface.process_user_input on instance ci: the user's message goes to
\* session_state.messages and to the manager when there is one; rag_agent.chat
\* on None raises AttributeError, which the except shows as an error
ProcessUserInput(ci, ss, prompt, response) ==
    LET user == [role |-> "user", content |-> prompt]
        assistant == [role |-> "assistant", content |-> response]
    IN  IF ci.rag_agent = None
        THEN /\ chat_interface' = [ci EXCEPT !.shown = "process_error"]
             /\ session_state' = [ss EXCEPT !.messages = Append(@, user)]
             /\ ManagerOf(ci, ss.session_id, << HumanMessage(prompt) >>)
        ELSE /\ chat_interface' = [ci EXCEPT !.shown = "response"]
             /\ session_state' = [ss EXCEPT !.messages = Append(Append(@, user), assistant)]
             /\ ManagerOf(ci, ss.session_id,
                          << HumanMessage(prompt), AIMessage(response) >>)

\* render_chat_input with a prompt: a warning when the agent is not
\* initialised, process_user_input otherwise
submit_prompt ==
    /\ PageIdle
    /\ Len(session_state.messages) < MaxMessages
    /\ \E init_ok \in BOOLEAN, prompt \in Contents, response \in Responses :
          LET ci == InterfaceAfterInit(init_ok)
              ss == SessionAfterInit(init_ok)
          IN  IF ~ss.agent_initialized
              THEN /\ chat_interface' = [ci EXCEPT !.shown = "init_warning"]
                   /\ session_state' = ss
                   /\ ManagerOf(ci, ss.session_id, << >>)
                   /\ op' = "render_chat_input"
              ELSE /\ ProcessUserInput(ci, ss, prompt, response)
                   /\ op' = "process_user_input"
    /\ outcome' = "rendered"
    /\ UIFrame

\* render_sidebar, the button "清空对话": the messages are emptied, the
\* session is cleared in the manager when there is one, st.rerun()
click_clear ==
    /\ PageIdle
    /\ \E init_ok \in BOOLEAN :
          LET ci == InterfaceAfterInit(init_ok)
              ss == SessionAfterInit(init_ok)
          IN  /\ chat_interface' = ci
              /\ session_state' = [ss EXCEPT !.messages = << >>]
              /\ ManagerOf(ci, ss.session_id, << >>)
    /\ op' = "clear"
    /\ outcome' = "rerun"
    /\ UIFrame

\* render_sidebar, the button "新对话": a new session id, no messages, st.rerun()
click_new_conversation ==
    /\ PageIdle
    /\ session_state.session_id < MaxSessions
    /\ \E init_ok \in BOOLEAN :
          LET ci == InterfaceAfterInit(init_ok)
              ss == SessionAfterInit(init_ok)
          IN  /\ chat_interface' = ci
              /\ session_state' = [ss EXCEPT !.session_id = @ + 1, !.messages = << >>]
              /\ ManagerOf(ci, ss.session_id, << >>)
    /\ op' = "new_conversation"
    /\ outcome' = "rerun"
    /\ UIFrame

\* the browser session before the page is first loaded
InitUI ==
    /\ vector_store = "ChromaVectorStore"
    /\ collection = << >>
    /\ bm25_retriever = NoRetriever
    /\ vector_weight = DefaultVectorWeight
    /\ keyword_weight = KeywordWeight(vector_weight)
    /\ n_results = 0
    /\ vector_results = << >>
    /\ keyword_results = << >>
    /\ result_map = << >>
    /\ combined_results = << >>
    /\ op = "none"
    /\ outcome = "none"
    /\ log = {}
    /\ events = {}
    /\ context = << >>
    /\ answers = NoAnswers
    /\ last_build = "none"
    /\ pc = "ui"
    /\ max_history = 0
    /\ conversations = EmptyDict
    /\ conversation_metadata = EmptyDict
    /\ added = EmptyDict
    /\ returned = << >>
    /\ session_state = NoSessionState
    /\ chat_interface = NewChatInterface
    /\ threads = << >>

NextUI ==
    \/ script_load
    \/ script_rerun
    \/ click_reinitialize
    \/ submit_prompt
    \/ click_clear
    \/ click_new_conversation

SpecUI == InitUI /\ [][NextUI]_vars

\* C30: whenever user input is processed with session_state.agent_initialized
\* true, the ChatInterface of that run holds an initialised rag_agent and an
\* initialised conversation_manager.
C30_ProcessingInstanceIsInitialised ==
    (op = "process_user_input" /\ session_state.agent_initialized) =>
        /\ chat_interface.rag_agent # None
        /\ chat_interface.conversation_manager # None

\* an input processed by the instance that initialised the agent in the same run
C30_ProcessedByInitialisingRun ==
    /\ op = "process_user_input"
    /\ chat_interface.rag_agent # None
    /\ Len(conversations[session_state.session_id]) = 2

=============================================================================
